---- MODULE Spec2Model ----
(***************************************************************************)
(* Model of data_pipeline.py: the two cleaners, the aggregation and the    *)
(* entry point that runs them and then writes three CSV files.             *)
(*                                                                         *)
(* A DataFrame is a sequence of records.  A string is a tuple of one-      *)
(* character strings, so that str.lower and the regular expression are     *)
(* computed character by character.  A date column holds either the raw    *)
(* text <<"str", y, m, d>> or the parsed Timestamp <<"ts", ordinal>>.      *)
(* Money is counted in cents.  The pass-through columns first_name,        *)
(* last_name, product and store_id are read and written by no operation    *)
(* and are left out of the records.                                        *)
(***************************************************************************)
EXTENDS Integers, Sequences, FiniteSets, TLC

VARIABLES customers, purchases, cleaned_customers, cleaned_purchases,
          customer_summary, recleaned_customers, files, pc

vars == <<customers, purchases, cleaned_customers, cleaned_purchases,
          customer_summary, recleaned_customers, files, pc>>

(***************************************************************************)
(* Bounds of the input tables.                                             *)
(***************************************************************************)
MaxCustomers == 2

MaxPurchases == 2

(***************************************************************************)
(* Strings: emails                                                         *)
(***************************************************************************)
UpperEmail == <<"A", "@", "x", ".", "c">>

LowerEmail == <<"a", "@", "x", ".", "c">>

OtherEmail == <<"b", "@", "x", ".", "c">>

NotAnEmail == <<"n", "-", "a">>

\* str.lower on one character
LowerChar(ch) ==
    CASE ch = "A" -> "a"
      [] ch = "B" -> "b"
      [] ch = "C" -> "c"
      [] ch = "X" -> "x"
      [] OTHER -> ch

\* Series.str.lower on one value
StrLower(s) == [i \in 1..Len(s) |-> LowerChar(s[i])]

\* the class \w of the pattern
WordChar(ch) == ch \in {"a", "b", "c", "n", "x", "A", "B", "C", "X", "_", "0", "1"}

\* the class [\w\.-] of the pattern
LocalChar(ch) == WordChar(ch) \/ ch = "." \/ ch = "-"

\* re.search(r'^[\w\.-]+@[\w\.-]+\.\w+$', s)
EmailMatches(s) ==
    \E at \in 2..Len(s) : \E dot \in (at + 2)..(Len(s) - 1) :
        /\ s[at] = "@"
        /\ s[dot] = "."
        /\ \A i \in 1..(at - 1) : LocalChar(s[i])
        /\ \A i \in (at + 1)..(dot - 1) : LocalChar(s[i])
        /\ \A i \in (dot + 1)..Len(s) : WordChar(s[i])

(***************************************************************************)
(* Dates                                                                   *)
(***************************************************************************)
IsLeap(y) == (y % 4 = 0 /\ y % 100 # 0) \/ y % 400 = 0

DaysInMonth(y, m) ==
    IF m = 2 THEN (IF IsLeap(y) THEN 29 ELSE 28)
    ELSE IF m \in {4, 6, 9, 11} THEN 30 ELSE 31

DaysBeforeMonth(y, m) ==
    <<0, 31, 59, 90, 120, 151, 181, 212, 243, 273, 304, 334>>[m]
        + (IF m > 2 /\ IsLeap(y) THEN 1 ELSE 0)

\* day number of a calendar date (proleptic Gregorian ordinal)
DateOrdinal(y, m, d) ==
    365 * (y - 1) + ((y - 1) \div 4) - ((y - 1) \div 100) + ((y - 1) \div 400)
        + DaysBeforeMonth(y, m) + d

\* does pd.to_datetime accept the value: a Timestamp, or text naming a real date
DateParses(v) ==
    \/ v[1] = "ts"
    \/ /\ v[1] = "str"
       /\ v[3] \in 1..12
       /\ v[4] \in 1..DaysInMonth(v[2], v[3])

\* pd.to_datetime on one value that parses
to_datetime(v) ==
    IF v[1] = "ts" THEN v ELSE <<"ts", DateOrdinal(v[2], v[3], v[4])>>

\* pd.to_datetime('2025-06-27')
ReferenceDate == to_datetime(<<"str", 2025, 6, 27>>)

(***************************************************************************)
(* clean_customer_data                                                     *)
(***************************************************************************)
\* df.drop_duplicates(subset='email', keep='first'): the values are compared
\* as they stand, before any lowercasing
RECURSIVE drop_duplicates(_)
drop_duplicates(df) ==
    IF df = <<>> THEN <<>>
    ELSE LET n == Len(df)
             front == drop_duplicates(SubSeq(df, 1, n - 1))
         IN  IF \E j \in 1..(n - 1) : df[j].email = df[n].email
             THEN front
             ELSE Append(front, df[n])

\* df['email'] = df['email'].str.lower()
lower_emails(df) == [i \in 1..Len(df) |-> [df[i] EXCEPT !.email = StrLower(@)]]

\* df[df['email'].str.contains(pattern)]
KeepsEmail(row) == EmailMatches(row.email)

\* the cleaner without its format check
filter_emails_none(df) == df

filter_emails(df) == SelectSeq(df, KeepsEmail)

\* the rows that reach the date conversion of clean_customer_data
customer_rows_kept(df) == filter_emails(lower_emails(drop_duplicates(df)))

\* pd.to_datetime(df['join_date']) raises on a value that does not parse
clean_customer_data_raises(df) ==
    \E i \in 1..Len(customer_rows_kept(df)) :
        ~DateParses(customer_rows_kept(df)[i].join_date)

\* the DataFrame clean_customer_data returns when it does not raise
clean_customer_data(df) ==
    LET kept == customer_rows_kept(df)
    IN  [i \in 1..Len(kept) |-> [kept[i] EXCEPT !.join_date = to_datetime(@)]]

(***************************************************************************)
(* clean_purchase_data                                                     *)
(***************************************************************************)
\* the mask with >= in place of > on the quantity
KeepsPurchaseFromZero(row) == row.quantity >= 0 /\ row.price > 0

\* the mask (df['quantity'] > 0) & (df['price'] > 0)
KeepsPurchase(row) == row.quantity > 0 /\ row.price > 0

\* df[(df['quantity'] > 0) & (df['price'] > 0)]
purchase_rows_kept(df) == SelectSeq(df, KeepsPurchase)

\* pd.to_datetime(df['purchase_date']) raises on a value that does not parse
clean_purchase_data_raises(df) ==
    \E i \in 1..Len(purchase_rows_kept(df)) :
        ~DateParses(purchase_rows_kept(df)[i].purchase_date)

\* one retained row with its date parsed and total_amount added
cleaned_purchase_row(row) ==
    [purchase_id   |-> row.purchase_id,
     customer_id   |-> row.customer_id,
     quantity      |-> row.quantity,
     price         |-> row.price,
     purchase_date |-> to_datetime(row.purchase_date),
     total_amount  |-> row.quantity * row.price]

\* the DataFrame clean_purchase_data returns when it does not raise
clean_purchase_data(df) ==
    LET kept == purchase_rows_kept(df)
    IN  [i \in 1..Len(kept) |-> cleaned_purchase_row(kept[i])]

(***************************************************************************)
(* transform_data                                                          *)
(***************************************************************************)
\* a missing value (NaN) in a merged column
NULL == <<"N", "a", "N">>

\* the rows purchases_df.merge(customers_df, on='customer_id', how='left')
\* makes of one purchase: one per customer row with its customer_id, in
\* customer order, or one with a missing city when there is none
merged_rows_of(p, customers_df) ==
    LET Matches(c) == c.customer_id = p.customer_id
        found == SelectSeq(customers_df, Matches)
    IN  IF found = <<>>
        THEN << [customer_id   |-> p.customer_id,
                 quantity      |-> p.quantity,
                 price         |-> p.price,
                 total_amount  |-> p.total_amount,
                 purchase_date |-> p.purchase_date,
                 city          |-> NULL] >>
        ELSE [i \in 1..Len(found) |->
                [customer_id   |-> p.customer_id,
                 quantity      |-> p.quantity,
                 price         |-> p.price,
                 total_amount  |-> p.total_amount,
                 purchase_date |-> p.purchase_date,
                 city          |-> found[i].city]]

\* purchases_df.merge(customers_df, on='customer_id', how='left')
RECURSIVE merge_left(_, _)
merge_left(purchases_df, customers_df) ==
    IF purchases_df = <<>> THEN <<>>
    ELSE merge_left(SubSeq(purchases_df, 1, Len(purchases_df) - 1), customers_df)
             \o merged_rows_of(purchases_df[Len(purchases_df)], customers_df)

\* the group keys in the order groupby yields them: ascending
RECURSIVE sorted_keys(_)
sorted_keys(S) ==
    IF S = {} THEN <<>>
    ELSE LET least == CHOOSE k \in S : \A other \in S : k <= other
         IN  <<least>> \o sorted_keys(S \ {least})

\* the sum of a column, added up in row order
RECURSIVE column_sum(_)
column_sum(values) ==
    IF values = <<>> THEN 0
    ELSE column_sum(SubSeq(values, 1, Len(values) - 1)) + values[Len(values)]

\* the aggregation summing the price column instead of total_amount
agg_sum_of_price(rows) == column_sum([i \in 1..Len(rows) |-> rows[i].price])

\* 'sum' of total_amount over the rows of a group
agg_sum(rows) == column_sum([i \in 1..Len(rows) |-> rows[i].total_amount])

\* the aggregation 'nunique' instead of 'count'
agg_nunique(rows) == Cardinality({rows[i].total_amount : i \in 1..Len(rows)})

\* 'count' of total_amount over the rows of a group: the values that are not
\* missing, and total_amount, a column of the left table, is missing in no row
agg_count(rows) == Len(rows)

\* 'max' of purchase_date over the rows of a group
agg_max(rows) ==
    LET i == CHOOSE i \in 1..Len(rows) :
                 \A j \in 1..Len(rows) :
                     rows[j].purchase_date[2] <= rows[i].purchase_date[2]
    IN  rows[i].purchase_date

\* 'first' of city over the rows of a group: the first value that is not missing
agg_first(rows) ==
    LET present == {i \in 1..Len(rows) : rows[i].city # NULL}
    IN  IF present = {} THEN NULL
        ELSE rows[CHOOSE i \in present : \A j \in present : i <= j].city

\* merged_df.groupby('customer_id').agg(...).reset_index(), columns renamed
grouped(merged_df) ==
    LET keys == sorted_keys({merged_df[i].customer_id : i \in 1..Len(merged_df)})
    IN  [g \in 1..Len(keys) |->
            LET InGroup(row) == row.customer_id = keys[g]
                rows == SelectSeq(merged_df, InGroup)
            IN  [customer_id    |-> keys[g],
                 total_spent    |-> agg_sum(rows),
                 purchase_count |-> agg_count(rows),
                 last_purchase  |-> agg_max(rows),
                 city           |-> agg_first(rows)]]

\* the subtraction with its operands exchanged
tenure_days_reversed(join_date) == join_date[2] - ReferenceDate[2]

\* (pd.to_datetime('2025-06-27') - join_date).dt.days
tenure_days(join_date) == ReferenceDate[2] - join_date[2]

\* the second merge made with how='left': a grouped row without a customer
\* is kept, its join_date and tenure_days missing
summary_rows_of_left(g, customers_df) ==
    LET Matches(c) == c.customer_id = g.customer_id
        found == SelectSeq(customers_df, Matches)
    IN  IF found = <<>>
        THEN << [customer_id    |-> g.customer_id,
                 total_spent    |-> g.total_spent,
                 purchase_count |-> g.purchase_count,
                 last_purchase  |-> g.last_purchase,
                 city           |-> g.city,
                 join_date      |-> NULL,
                 tenure_days    |-> NULL] >>
        ELSE [i \in 1..Len(found) |->
                [customer_id    |-> g.customer_id,
                 total_spent    |-> g.total_spent,
                 purchase_count |-> g.purchase_count,
                 last_purchase  |-> g.last_purchase,
                 city           |-> g.city,
                 join_date      |-> found[i].join_date,
                 tenure_days    |-> ReferenceDate[2] - found[i].join_date[2]]]

\* the rows the inner merge with customers_df[['customer_id', 'join_date']]
\* makes of one grouped row, with tenure_days added
summary_rows_of(g, customers_df) ==
    LET Matches(c) == c.customer_id = g.customer_id
        found == SelectSeq(customers_df, Matches)
    IN  [i \in 1..Len(found) |->
            [customer_id    |-> g.customer_id,
             total_spent    |-> g.total_spent,
             purchase_count |-> g.purchase_count,
             last_purchase  |-> g.last_purchase,
             city           |-> g.city,
             join_date      |-> found[i].join_date,
             tenure_days    |-> tenure_days(found[i].join_date)]]

\* customer_summary.merge(customers_df[['customer_id', 'join_date']], on='customer_id')
RECURSIVE merge_inner(_, _)
merge_inner(summary, customers_df) ==
    IF summary = <<>> THEN <<>>
    ELSE merge_inner(SubSeq(summary, 1, Len(summary) - 1), customers_df)
             \o summary_rows_of(summary[Len(summary)], customers_df)

transform_data(customers_df, purchases_df) ==
    merge_inner(grouped(merge_left(purchases_df, customers_df)), customers_df)

(***************************************************************************)
(* The raw tables                                                          *)
(***************************************************************************)
NewYork == <<"N", "Y">>

Chicago == <<"C", "h">>

JoinDate2020 == <<"str", 2020, 6, 1>>

JoinDate2025 == <<"str", 2025, 6, 28>>

MalformedDate == <<"str", 2021, 2, 30>>

\* generate_mock_customers: row i carries customer_id i; the other columns
\* are f[i] = <<email, city, join_date>>
RawCustomerTable(f) ==
    [i \in 1..Len(f) |-> [customer_id |-> i,
                          email       |-> f[i][1],
                          city        |-> f[i][2],
                          join_date   |-> f[i][3]]]

PurchaseDate2024 == <<"str", 2024, 2, 29>>

PurchaseDate2025 == <<"str", 2025, 1, 1>>

\* the customer_id values generate_mock_purchases draws from
CustomerIds == 1..MaxCustomers

\* generate_mock_purchases: row i carries purchase_id i; the other columns
\* are f[i] = <<customer_id, quantity, price, purchase_date>>
RawPurchaseTable(f) ==
    [i \in 1..Len(f) |-> [purchase_id   |-> i,
                          customer_id   |-> f[i][1],
                          quantity      |-> f[i][2],
                          price         |-> f[i][3],
                          purchase_date |-> f[i][4]]]

NotRun == <<>>

NoFiles == {}

(***************************************************************************)
(* main, step by step                                                      *)
(***************************************************************************)
\* main writing each table as soon as it is cleaned
CleanCustomersStepSavingAtOnce ==
    /\ pc = "clean_customers"
    /\ IF clean_customer_data_raises(customers)
       THEN /\ pc' = "aborted"
            /\ UNCHANGED <<cleaned_customers, files>>
       ELSE /\ cleaned_customers' = clean_customer_data(customers)
            /\ files' = files \cup {<<"customers.csv", clean_customer_data(customers)>>}
            /\ pc' = "clean_purchases"
    /\ UNCHANGED <<customers, purchases, cleaned_purchases, customer_summary,
                   recleaned_customers>>

\* cleaned_customers = clean_customer_data(customers)
CleanCustomersStep ==
    /\ pc = "clean_customers"
    /\ IF clean_customer_data_raises(customers)
       THEN /\ pc' = "aborted"
            /\ UNCHANGED cleaned_customers
       ELSE /\ cleaned_customers' = clean_customer_data(customers)
            /\ pc' = "clean_purchases"
    /\ UNCHANGED <<customers, purchases, cleaned_purchases, customer_summary,
                   recleaned_customers, files>>

\* cleaned_purchases = clean_purchase_data(purchases)
CleanPurchasesStep ==
    /\ pc = "clean_purchases"
    /\ IF clean_purchase_data_raises(purchases)
       THEN /\ pc' = "aborted"
            /\ UNCHANGED cleaned_purchases
       ELSE /\ cleaned_purchases' = clean_purchase_data(purchases)
            /\ pc' = "transform"
    /\ UNCHANGED <<customers, purchases, cleaned_customers, customer_summary,
                   recleaned_customers, files>>

\* customer_summary = transform_data(cleaned_customers, cleaned_purchases)
TransformStep ==
    /\ pc = "transform"
    /\ customer_summary' = transform_data(cleaned_customers, cleaned_purchases)
    /\ pc' = "save_customers"
    /\ UNCHANGED <<customers, purchases, cleaned_customers, cleaned_purchases,
                   recleaned_customers, files>>

\* save_data(df, filename): df.to_csv(f'grocery_data/{filename}', index=False)
save_data(written, df, filename) == written \cup {<<filename, df>>}

\* save_data(cleaned_customers, 'customers.csv')
SaveCustomersStep ==
    /\ pc = "save_customers"
    /\ files' = save_data(files, cleaned_customers, "customers.csv")
    /\ pc' = "save_purchases"
    /\ UNCHANGED <<customers, purchases, cleaned_customers, cleaned_purchases,
                   customer_summary, recleaned_customers>>

\* save_data(cleaned_purchases, 'purchases.csv')
SavePurchasesStep ==
    /\ pc = "save_purchases"
    /\ files' = save_data(files, cleaned_purchases, "purchases.csv")
    /\ pc' = "save_summary"
    /\ UNCHANGED <<customers, purchases, cleaned_customers, cleaned_purchases,
                   customer_summary, recleaned_customers>>

\* save_data(customer_summary, 'customer_summary.csv'), then the three prints
SaveSummaryStep ==
    /\ pc = "save_summary"
    /\ files' = save_data(files, customer_summary, "customer_summary.csv")
    /\ pc' = "done"
    /\ UNCHANGED <<customers, purchases, cleaned_customers, cleaned_purchases,
                   customer_summary, recleaned_customers>>

\* the cleaner run once more, on its own output
RecleanCustomersStep ==
    /\ pc = "clean_purchases"
    /\ ~clean_customer_data_raises(cleaned_customers)
    /\ recleaned_customers' = clean_customer_data(cleaned_customers)
    /\ pc' = "recleaned"
    /\ UNCHANGED <<customers, purchases, cleaned_customers, cleaned_purchases,
                   customer_summary, files>>

(***************************************************************************)
(* The customer cleaner alone, on every raw customer table                 *)
(***************************************************************************)
CustFields ==
    {UpperEmail, LowerEmail, OtherEmail, NotAnEmail}
        \X {NewYork, Chicago}
        \X {JoinDate2020, JoinDate2025, MalformedDate}

InitCust ==
    /\ \E n \in 0..MaxCustomers : \E f \in [1..n -> CustFields] :
           customers = RawCustomerTable(f)
    /\ purchases = <<>>
    /\ cleaned_customers = NotRun
    /\ cleaned_purchases = NotRun
    /\ customer_summary = NotRun
    /\ recleaned_customers = NotRun
    /\ files = NoFiles
    /\ pc = "clean_customers"

NextCust == CleanCustomersStep \/ RecleanCustomersStep

SpecCust == InitCust /\ [][NextCust]_vars

\* the cleaner has returned a table
CustomersCleaned == pc \notin {"clean_customers", "aborted"}

\* C3: in the output of clean_customer_data no two rows have emails that are
\* equal ignoring case, no two rows have the same customer_id, and every
\* email is lowercase and matches the address pattern.
C3_CleanedCustomersUnique ==
    CustomersCleaned =>
        /\ \A i, j \in 1..Len(cleaned_customers) :
               i # j =>
                   /\ StrLower(cleaned_customers[i].email)
                          # StrLower(cleaned_customers[j].email)
                   /\ cleaned_customers[i].customer_id
                          # cleaned_customers[j].customer_id
        /\ \A i \in 1..Len(cleaned_customers) :
               /\ cleaned_customers[i].email = StrLower(cleaned_customers[i].email)
               /\ EmailMatches(cleaned_customers[i].email)

\* C4: clean_customer_data retains a raw record exactly when its lowercased
\* email matches the pattern and no earlier record has the same email
\* ignoring case.
C4_FirstOccurrenceWins ==
    CustomersCleaned =>
        { cleaned_customers[k].customer_id : k \in 1..Len(cleaned_customers) }
            = { customers[i].customer_id : i \in
                  { i \in 1..Len(customers) :
                      /\ EmailMatches(StrLower(customers[i].email))
                      /\ \A j \in 1..(i - 1) :
                             StrLower(customers[j].email)
                                 # StrLower(customers[i].email) } }

\* C5: cleaning the cleaned customers again returns them unchanged.
C5_CleaningIdempotent ==
    pc = "recleaned" => recleaned_customers = cleaned_customers

(***************************************************************************)
(* The purchase cleaner alone, on every raw purchase table                 *)
(***************************************************************************)
PurchFields ==
    CustomerIds \X {-1, 0, 1, 2} \X {-100, 0, 275}
        \X {PurchaseDate2024, MalformedDate}

InitPurch ==
    /\ customers = <<>>
    /\ \E n \in 0..MaxPurchases : \E f \in [1..n -> PurchFields] :
           purchases = RawPurchaseTable(f)
    /\ cleaned_customers = NotRun
    /\ cleaned_purchases = NotRun
    /\ customer_summary = NotRun
    /\ recleaned_customers = NotRun
    /\ files = NoFiles
    /\ pc = "clean_purchases"

NextPurch == CleanPurchasesStep

SpecPurch == InitPurch /\ [][NextPurch]_vars

\* the purchase cleaner has returned a table
PurchasesCleaned == pc \notin {"clean_customers", "clean_purchases", "aborted"}

\* C6: the output of clean_purchase_data is exactly the input records with
\* quantity > 0 and price > 0, in input order; every output row has
\* quantity > 0, price > 0 and total_amount = quantity * price > 0; the other
\* fields of a retained record are those of the input record.
C6_CleanedPurchases ==
    PurchasesCleaned =>
        /\ { cleaned_purchases[k].purchase_id : k \in 1..Len(cleaned_purchases) }
               = { purchases[i].purchase_id : i \in
                     { i \in 1..Len(purchases) :
                         purchases[i].quantity > 0 /\ purchases[i].price > 0 } }
        /\ \A k, l \in 1..Len(cleaned_purchases) :
               k < l => cleaned_purchases[k].purchase_id
                            < cleaned_purchases[l].purchase_id
        /\ \A k \in 1..Len(cleaned_purchases) :
               LET row == cleaned_purchases[k]
                   raw == purchases[row.purchase_id]
               IN  /\ row.quantity > 0
                   /\ row.price > 0
                   /\ row.total_amount = row.quantity * row.price
                   /\ row.total_amount > 0
                   /\ row.customer_id = raw.customer_id
                   /\ row.quantity = raw.quantity
                   /\ row.price = raw.price
                   /\ raw.purchase_date[1] = "str"
                   /\ row.purchase_date
                          = <<"ts", DateOrdinal(raw.purchase_date[2],
                                                raw.purchase_date[3],
                                                raw.purchase_date[4])>>

\* a table from which the cleaner dropped the first row and kept a later one,
\* whose total is 2 * 2.75
C6_Witness ==
    /\ PurchasesCleaned
    /\ Len(purchases) >= 2
    /\ purchases[1].quantity <= 0
    /\ \E k \in 1..Len(cleaned_purchases) :
           /\ cleaned_purchases[k].purchase_id = 2
           /\ cleaned_purchases[k].total_amount = 550

(***************************************************************************)
(* The cleaners and the aggregation, on raw tables whose dates all parse   *)
(***************************************************************************)
AggCustFields ==
    {UpperEmail, OtherEmail, NotAnEmail}
        \X {<<NewYork, JoinDate2020>>, <<Chicago, JoinDate2025>>}

AggPurchFields ==
    CustomerIds \X {<<0, 300, PurchaseDate2024>>,
                    <<1, 300, PurchaseDate2025>>,
                    <<2, 275, PurchaseDate2024>>}

InitAgg ==
    /\ \E n \in 0..MaxCustomers : \E f \in [1..n -> AggCustFields] :
           customers = RawCustomerTable(
               [i \in 1..n |-> <<f[i][1], f[i][2][1], f[i][2][2]>>])
    /\ \E n \in 0..MaxPurchases : \E f \in [1..n -> AggPurchFields] :
           purchases = RawPurchaseTable(
               [i \in 1..n |-> <<f[i][1], f[i][2][1], f[i][2][2], f[i][2][3]>>])
    /\ cleaned_customers = NotRun
    /\ cleaned_purchases = NotRun
    /\ customer_summary = NotRun
    /\ recleaned_customers = NotRun
    /\ files = NoFiles
    /\ pc = "clean_customers"

NextAgg == CleanCustomersStep \/ CleanPurchasesStep \/ TransformStep

SpecAgg == InitAgg /\ [][NextAgg]_vars

\* transform_data has returned the summary
Transformed == pc \in {"save_customers", "save_purchases", "save_summary", "done"}

\* the positions of the cleaned purchases that carry customer_id k
CleanedPurchasesOf(k) ==
    {i \in 1..Len(cleaned_purchases) : cleaned_purchases[i].customer_id = k}

\* the exact sum of total_amount over the cleaned purchases at the positions S
RECURSIVE TotalAmountOver(_)
TotalAmountOver(S) ==
    IF S = {} THEN 0
    ELSE LET i == CHOOSE i \in S : TRUE
         IN  cleaned_purchases[i].total_amount + TotalAmountOver(S \ {i})

SummaryIds == {customer_summary[r].customer_id : r \in 1..Len(customer_summary)}

\* C1: every summary row has total_spent equal to the exact sum of
\* total_amount over the cleaned purchases with the row's customer_id.
C1_SumCorrect ==
    Transformed =>
        \A r \in 1..Len(customer_summary) :
            customer_summary[r].total_spent
                = TotalAmountOver(CleanedPurchasesOf(customer_summary[r].customer_id))

\* a customer with purchases of 3.00 and 5.50 and a summary row of 8.50
C1_Witness ==
    /\ Transformed
    /\ \E r \in 1..Len(customer_summary) :
           /\ customer_summary[r].total_spent = 850
           /\ {cleaned_purchases[i].total_amount :
                   i \in CleanedPurchasesOf(customer_summary[r].customer_id)}
                  = {300, 550}

\* C2: every customer_id of the summary has at least one cleaned purchase, and
\* the row's purchase_count is the exact number of cleaned purchases with it.
C2_SummaryComplete ==
    Transformed =>
        \A r \in 1..Len(customer_summary) :
            LET mine == CleanedPurchasesOf(customer_summary[r].customer_id)
            IN  /\ mine # {}
                /\ customer_summary[r].purchase_count = Cardinality(mine)

\* a summary row counting two purchases of the same amount, 3.00 each
C2_Witness ==
    /\ Transformed
    /\ \E r \in 1..Len(customer_summary) :
           /\ customer_summary[r].purchase_count = 2
           /\ customer_summary[r].total_spent = 600

\* a raw customer record whose lowercased email fails the address pattern
Malformed(i) == ~EmailMatches(StrLower(customers[i].email))

\* C8: a customer record whose lowercased email fails the pattern is absent
\* from the cleaned customers; its customer_id has no summary row even when
\* cleaned purchases reference it; the city and join_date of every summary row
\* are those of a cleaned customer with the row's customer_id.
C8_MalformedEmailExcluded ==
    /\ CustomersCleaned =>
           \A i \in 1..Len(customers) :
               Malformed(i) =>
                   \A k \in 1..Len(cleaned_customers) :
                       cleaned_customers[k].customer_id # customers[i].customer_id
    /\ Transformed =>
           /\ \A i \in 1..Len(customers) :
                  Malformed(i) => customers[i].customer_id \notin SummaryIds
           /\ \A r \in 1..Len(customer_summary) :
                  \E k \in 1..Len(cleaned_customers) :
                      /\ cleaned_customers[k].customer_id
                             = customer_summary[r].customer_id
                      /\ cleaned_customers[k].city = customer_summary[r].city
                      /\ cleaned_customers[k].join_date
                             = customer_summary[r].join_date

\* a dropped customer whose customer_id cleaned purchases reference, next to
\* a retained customer with a summary row
C8_Witness ==
    /\ Transformed
    /\ customer_summary # <<>>
    /\ \E i \in 1..Len(customers) :
           /\ customers[i].email = NotAnEmail
           /\ CleanedPurchasesOf(customers[i].customer_id) # {}

\* C9: every summary row has tenure_days equal to the number of days from the
\* join_date of the cleaned customer with its customer_id to 2025-06-27; a
\* customer who joined on 2020-06-01 has 1852.
C9_TenureDays ==
    Transformed =>
        \A r \in 1..Len(customer_summary) :
            /\ \E k \in 1..Len(cleaned_customers) :
                   /\ cleaned_customers[k].customer_id
                          = customer_summary[r].customer_id
                   /\ customer_summary[r].tenure_days
                          = DateOrdinal(2025, 6, 27) - cleaned_customers[k].join_date[2]
            /\ customers[customer_summary[r].customer_id].join_date = JoinDate2020
                   => customer_summary[r].tenure_days = 1852
            /\ customers[customer_summary[r].customer_id].join_date = JoinDate2025
                   => customer_summary[r].tenure_days = -1

\* two summary rows, one of a customer who joined on 2020-06-01 and one of a
\* customer who joined the day after the reference date
C9_Witness ==
    /\ Transformed
    /\ \E r, q \in 1..Len(customer_summary) :
           /\ customer_summary[r].tenure_days = 1852
           /\ customer_summary[q].tenure_days = -1

\* C10 as stated: the summary has exactly one row for each customer_id with
\* at least one cleaned purchase, and no two rows share a customer_id.
C10_OneRowPerPurchasingCustomer ==
    Transformed =>
        /\ SummaryIds
               = {cleaned_purchases[i].customer_id : i \in 1..Len(cleaned_purchases)}
        /\ \A r, q \in 1..Len(customer_summary) :
               customer_summary[r].customer_id = customer_summary[q].customer_id
                   => r = q

\* C10 amended: the summary has exactly one row for each customer_id that has
\* at least one cleaned purchase and a row in the cleaned customers, and no row
\* for any other customer_id.
C10_OneRowPerPurchasingCleanedCustomer ==
    Transformed =>
        /\ SummaryIds
               = {cleaned_purchases[i].customer_id : i \in 1..Len(cleaned_purchases)}
                   \cap {cleaned_customers[k].customer_id :
                             k \in 1..Len(cleaned_customers)}
        /\ \A r, q \in 1..Len(customer_summary) :
               customer_summary[r].customer_id = customer_summary[q].customer_id
                   => r = q

\* cleaned purchases of two customers, one retained with a summary row and
\* one absent from the cleaned customers
C10_Witness ==
    /\ Transformed
    /\ Len(customer_summary) = 1
    /\ \E i \in 1..Len(cleaned_purchases) :
           cleaned_purchases[i].customer_id \notin SummaryIds
    /\ CleanedPurchasesOf(customer_summary[1].customer_id) # {}

(***************************************************************************)
(* main: the whole run, on raw tables in which dates may be malformed      *)
(***************************************************************************)
MainCustFields ==
    {OtherEmail, NotAnEmail} \X {NewYork} \X {JoinDate2020, MalformedDate}

MainPurchFields ==
    CustomerIds \X {0, 1} \X {300} \X {PurchaseDate2024, MalformedDate}

Init ==
    /\ \E n \in 0..MaxCustomers : \E f \in [1..n -> MainCustFields] :
           customers = RawCustomerTable(f)
    /\ \E n \in 0..MaxPurchases : \E f \in [1..n -> MainPurchFields] :
           purchases = RawPurchaseTable(f)
    /\ cleaned_customers = NotRun
    /\ cleaned_purchases = NotRun
    /\ customer_summary = NotRun
    /\ recleaned_customers = NotRun
    /\ files = NoFiles
    /\ pc = "clean_customers"

Next ==
    \/ CleanCustomersStep
    \/ CleanPurchasesStep
    \/ TransformStep
    \/ SaveCustomersStep
    \/ SavePurchasesStep
    \/ SaveSummaryStep

Spec == Init /\ [][Next]_vars

\* a raw customer record whose join_date the cleaner tries to parse: its
\* email is the first of its spelling and matches the pattern in lowercase
CustomerDateIsParsed(i) ==
    /\ \A j \in 1..(i - 1) : customers[j].email # customers[i].email
    /\ EmailMatches(StrLower(customers[i].email))

\* a raw purchase record whose purchase_date the cleaner tries to parse
PurchaseDateIsParsed(i) == purchases[i].quantity > 0 /\ purchases[i].price > 0

JoinDateFails ==
    \E i \in 1..Len(customers) :
        CustomerDateIsParsed(i) /\ ~DateParses(customers[i].join_date)

PurchaseDateFails ==
    \E i \in 1..Len(purchases) :
        PurchaseDateIsParsed(i) /\ ~DateParses(purchases[i].purchase_date)

\* C7: when the parse of a join_date or of a purchase_date fails, the run
\* aborts and no file has been written; a file is written only after both
\* cleaners and transform_data have returned.
C7_NoPartialOutput ==
    /\ JoinDateFails => pc \in {"clean_customers", "aborted"}
    /\ PurchaseDateFails => pc \in {"clean_customers", "clean_purchases", "aborted"}
    /\ pc = "aborted" => files = {}
    /\ files # {} => pc \in {"save_purchases", "save_summary", "done"}

\* a run in which the customers were cleaned and a purchase_date then failed
\* to parse: aborted, with nothing written
C7_Witness ==
    /\ pc = "aborted"
    /\ cleaned_customers # NotRun
    /\ PurchaseDateFails
    /\ files = {}

====
